---- MODULE Spec2Model ----
(***************************************************************************)
(* Model of internal/config/parsing.go of labns: LoadConfig, the per-record *)
(* rules (isValidRecordName, isValidType, TTL, isValidTarget) and           *)
(* ValidateNameserver.                                                      *)
(*                                                                          *)
(* Go strings are modelled as sequences of one-character strings, so that   *)
(* the parsers used by the code (net.ParseIP, the FQDN pattern, the rune    *)
(* loop of isValidTarget) are computed character by character.              *)
(***************************************************************************)
EXTENDS Integers, Sequences, FiniteSets, TLC

VARIABLES pc, file, decoded, config, k, result, checks, ns, nsCalls

vars == <<pc, file, decoded, config, k, result, checks, ns, nsCalls>>

loadVars == <<pc, file, decoded, config, k, result, checks>>

nsVars == <<ns, nsCalls>>

(***************************************************************************)
(* Bounds                                                                   *)
(***************************************************************************)
MaxRecords == 2

MaxCalls == 2

(***************************************************************************)
(* Characters and small string helpers.  Letters is the alphabet of the     *)
(* input literals, not all of [A-Za-z].                                     *)
(***************************************************************************)
Digits == {"0", "1", "2", "3", "4", "5", "6", "7", "8", "9"}

HexLetters == {"a", "b", "c", "d", "e", "f", "A", "B", "C", "D", "E", "F"}

Letters == HexLetters \cup {"g", "i", "n", "o", "s", "v", "x", "m", "l"}

HexDigits == Digits \cup HexLetters

LabelChars == Letters \cup Digits \cup {"-"}

DigitVal(c) ==
  CASE c = "0" -> 0 [] c = "1" -> 1 [] c = "2" -> 2 [] c = "3" -> 3
    [] c = "4" -> 4 [] c = "5" -> 5 [] c = "6" -> 6 [] c = "7" -> 7
    [] c = "8" -> 8 [] c = "9" -> 9
    [] c \in {"a", "A"} -> 10 [] c \in {"b", "B"} -> 11
    [] c \in {"c", "C"} -> 12 [] c \in {"d", "D"} -> 13
    [] c \in {"e", "E"} -> 14 [] c \in {"f", "F"} -> 15

RECURSIVE NumVal(_, _)
NumVal(s, base) ==
  IF s = <<>> THEN 0
  ELSE NumVal(SubSeq(s, 1, Len(s) - 1), base) * base + DigitVal(s[Len(s)])

\* strings.Split(s, sep) for a one-character separator
RECURSIVE SplitFrom(_, _, _, _)
SplitFrom(s, sep, i, start) ==
  IF i > Len(s) THEN <<SubSeq(s, start, Len(s))>>
  ELSE IF s[i] = sep
       THEN <<SubSeq(s, start, i - 1)>> \o SplitFrom(s, sep, i + 1, i + 1)
       ELSE SplitFrom(s, sep, i + 1, start)

Split(s, sep) == SplitFrom(s, sep, 1, 1)

RECURSIVE Flatten(_)
Flatten(ss) == IF ss = <<>> THEN <<>> ELSE Head(ss) \o Flatten(Tail(ss))

(***************************************************************************)
(* String literals used as inputs                                           *)
(***************************************************************************)
Empty == <<>>

S_abco == <<"a", "b", ".", "c", "o", ".">>

S_cdio == <<"c", "d", ".", "i", "o", ".">>

S_aaco == <<"a", "a", ".", "c", "o", ".">>

S_a_b == <<"a", " ", "b">>

S_abco_nodot == <<"a", "b", ".", "c", "o">>

S_x == <<"x">>

S_10_0_0_5 == <<"1", "0", ".", "0", ".", "0", ".", "5">>

S_1_1_1_1 == <<"1", ".", "1", ".", "1", ".", "1">>

S_loopback6 == <<":", ":", "1">>

S_mapped == <<":", ":", "f", "f", "f", "f", ":", "1", "0", ".", "0", ".", "0", ".", "5">>

S_2001_db8__1 == <<"2", "0", "0", "1", ":", "d", "b", "8", ":", ":", "1">>

S_256_0_0_1 == <<"2", "5", "6", ".", "0", ".", "0", ".", "1">>

Literals ==
  { Empty, S_abco, S_cdio, S_aaco, S_a_b, S_abco_nodot, S_x, S_10_0_0_5,
    S_1_1_1_1, S_loopback6, S_mapped, S_2001_db8__1, S_256_0_0_1 }

(***************************************************************************)
(* net.ParseIP and IP.To4 / IP.To16 of the Go standard library              *)
(***************************************************************************)
NilIP == <<>>

IsDecField(f) ==
  /\ Len(f) \in 1..3
  /\ \A i \in 1..Len(f) : f[i] \in Digits
  /\ (Len(f) > 1 => f[1] # "0")
  /\ NumVal(f, 10) <= 255

\* the four octets of a dotted-decimal literal, or NilIP
parseIPv4(s) ==
  LET fs == Split(s, ".")
  IN IF Len(fs) = 4 /\ \A i \in 1..4 : IsDecField(fs[i])
     THEN [i \in 1..4 |-> NumVal(fs[i], 10)]
     ELSE NilIP

IsHexGroup(f) ==
  /\ Len(f) \in 1..4
  /\ \A i \in 1..Len(f) : f[i] \in HexDigits

GroupBytes(f) == LET v == NumVal(f, 16) IN <<v \div 256, v % 256>>

\* bytes of a colon-separated run of groups whose last group may be an
\* embedded dotted-decimal IPv4 address when lastMayBeV4; <<-1>> on error
GroupsBytes(gs, lastMayBeV4) ==
  IF \A i \in 1..Len(gs) :
        \/ IsHexGroup(gs[i])
        \/ (i = Len(gs) /\ lastMayBeV4 /\ parseIPv4(gs[i]) # NilIP)
  THEN Flatten([i \in 1..Len(gs) |->
                  IF IsHexGroup(gs[i]) THEN GroupBytes(gs[i])
                  ELSE parseIPv4(gs[i])])
  ELSE <<-1>>

Zeros(n) == [i \in 1..n |-> 0]

\* the 16 bytes of a colon-form literal, or NilIP
parseIPv6(s) ==
  LET ell == {i \in 1..(Len(s) - 1) : s[i] = ":" /\ s[i + 1] = ":"}
  IN IF Cardinality(ell) > 1 THEN NilIP
     ELSE IF Cardinality(ell) = 1
     THEN LET e == CHOOSE i \in ell : TRUE
              left == SubSeq(s, 1, e - 1)
              right == SubSeq(s, e + 2, Len(s))
              lb == IF left = <<>> THEN <<>>
                    ELSE GroupsBytes(Split(left, ":"), FALSE)
              rb == IF right = <<>> THEN <<>>
                    ELSE GroupsBytes(Split(right, ":"), TRUE)
          IN IF lb = <<-1>> \/ rb = <<-1>> \/ Len(lb) + Len(rb) > 14
             THEN NilIP
             ELSE lb \o Zeros(16 - Len(lb) - Len(rb)) \o rb
     ELSE LET b == GroupsBytes(Split(s, ":"), TRUE)
          IN IF b # <<-1>> /\ Len(b) = 16 THEN b ELSE NilIP

v4InV6Prefix == <<0, 0, 0, 0, 0, 0, 0, 0, 0, 0, 255, 255>>

\* the parse behind net.ParseIP: always the 16-byte form, an IPv4 literal
\* as its IPv4-mapped address
parseIP(s) ==
  IF \E i \in 1..Len(s) : s[i] = ":" THEN parseIPv6(s)
  ELSE LET q == parseIPv4(s)
       IN IF q = NilIP THEN NilIP ELSE v4InV6Prefix \o q

\* parseIP of the input literals, computed once
ParseIPTable == [s \in Literals |-> parseIP(s)]

ParseIP(s) == IF s \in Literals THEN ParseIPTable[s] ELSE parseIP(s)

\* IP.To4: the 4-byte form of a 4-byte or IPv4-mapped 16-byte address
To4(ip) ==
  IF Len(ip) = 4 THEN ip
  ELSE IF Len(ip) = 16 /\ SubSeq(ip, 1, 12) = v4InV6Prefix
       THEN SubSeq(ip, 13, 16)
       ELSE NilIP

\* IP.To16: the 16-byte form of a 4-byte or 16-byte address
To16(ip) ==
  IF Len(ip) = 4 THEN v4InV6Prefix \o ip
  ELSE IF Len(ip) = 16 THEN ip ELSE NilIP

(***************************************************************************)
(* VALID_FQDN_REGEX: one or more labels of letters, digits and hyphens,     *)
(* each followed by a dot, anchored at both ends                            *)
(***************************************************************************)
IsLabel(l) ==
  /\ Len(l) >= 1
  /\ \A i \in 1..Len(l) : l[i] \in LabelChars

matchFQDN(s) ==
  /\ Len(s) >= 2
  /\ s[Len(s)] = "."
  /\ LET ls == Split(SubSeq(s, 1, Len(s) - 1), ".")
     IN \A i \in 1..Len(ls) : IsLabel(ls[i])

\* the match on the input literals, computed once
MatchFQDNTable == [s \in Literals |-> matchFQDN(s)]

MatchFQDN(s) == IF s \in Literals THEN MatchFQDNTable[s] ELSE matchFQDN(s)

(***************************************************************************)
(* Record rules                                                             *)
(***************************************************************************)
PermittedRecordTypes == <<"A", "AAAA", "CNAME">>

isValidRecordName(name) == MatchFQDN(name)

isValidType(parsedType) ==
  \E i \in 1..Len(PermittedRecordTypes) : parsedType = PermittedRecordTypes[i]

\* the rune loop of the CNAME case: some rune equals its successor
HasAdjacentDuplicate(runes) ==
  \E i \in 1..(Len(runes) - 1) : runes[i + 1] = runes[i]

isValidTarget_noDupFilter(parsedType, parsedTarget) ==
  CASE parsedType = "A" -> To4(ParseIP(parsedTarget)) # NilIP
    [] parsedType = "AAAA" -> To16(ParseIP(parsedTarget)) # NilIP
    [] parsedType = "CNAME" -> MatchFQDN(parsedTarget)
    [] OTHER -> FALSE

isValidTarget(parsedType, parsedTarget) ==
  CASE parsedType = "A" -> To4(ParseIP(parsedTarget)) # NilIP
    [] parsedType = "AAAA" -> To16(ParseIP(parsedTarget)) # NilIP
    [] parsedType = "CNAME" ->
         IF HasAdjacentDuplicate(parsedTarget) THEN FALSE
         ELSE MatchFQDN(parsedTarget)
    [] OTHER -> FALSE

(***************************************************************************)
(* Errors: the message kind and the values formatted into it                *)
(***************************************************************************)
NoIndex == 0 - 1

NoErr == [kind |-> "nil", index |-> NoIndex, addr |-> Empty]

Err(kind) == [kind |-> kind, index |-> NoIndex, addr |-> Empty]

RecordErr(rule, idx) == [kind |-> rule, index |-> idx, addr |-> Empty]

AddrErr(kind, a) == [kind |-> kind, index |-> NoIndex, addr |-> a]

\* the order in which the loop body of LoadConfig tests one record
RuleOrder_ttlFirst == <<"ttl", "name", "type", "target">>

RuleOrder == <<"name", "type", "ttl", "target">>

RulePasses_noTTL(rule, v) ==
  CASE rule = "name" -> isValidRecordName(v.Name)
    [] rule = "type" -> isValidType(v.Type)
    [] rule = "ttl" -> TRUE
    [] rule = "target" -> isValidTarget(v.Type, v.Target)

RulePasses(rule, v) ==
  CASE rule = "name" -> isValidRecordName(v.Name)
    [] rule = "type" -> isValidType(v.Type)
    [] rule = "ttl" -> v.TTL # 0
    [] rule = "target" -> isValidTarget(v.Type, v.Target)

\* position in RuleOrder of the first test that returns, 0 when none does
RECURSIVE FirstFailingFrom(_, _)
FirstFailingFrom(v, i) ==
  IF i > Len(RuleOrder) THEN 0
  ELSE IF ~RulePasses(RuleOrder[i], v) THEN i
  ELSE FirstFailingFrom(v, i + 1)

FirstFailing(v) == FirstFailingFrom(v, 1)

\* the tests one iteration evaluates, in order, given the first that returns
RulesEvaluated(ff) ==
  IF ff = 0 THEN RuleOrder ELSE SubSeq(RuleOrder, 1, ff)

(***************************************************************************)
(* ValidateNameserver: the endpoint as left behind and the error returned   *)
(***************************************************************************)
DefaultPort == 53

DefaultTimeoutMs == 5000

NameserverError(n) ==
  IF n.IPv4 = Empty /\ n.IPv6 = Empty THEN Err("nsMissing")
  ELSE IF n.IPv4 # Empty /\ ParseIP(n.IPv4) = NilIP
       THEN AddrErr("nsIPv4", n.IPv4)
  ELSE IF n.IPv6 # Empty /\ ParseIP(n.IPv6) = NilIP
       THEN AddrErr("nsIPv6", n.IPv6)
  ELSE NoErr

ValidateNameserver_portOnSuccess(n) ==
  LET e == NameserverError(n)
  IN [ns |-> IF n.Port = 0 /\ e = NoErr
             THEN [n EXCEPT !.Port = DefaultPort] ELSE n,
      err |-> e]

ValidateNameserver_portAlways(n) ==
  [ns |-> [n EXCEPT !.Port = DefaultPort],
   err |-> NameserverError(n)]

ValidateNameserver(n) ==
  LET defaulted == IF n.Port = 0 THEN [n EXCEPT !.Port = DefaultPort] ELSE n
  IN [ns |-> defaulted, err |-> NameserverError(defaulted)]

(***************************************************************************)
(* Input documents.  A JSON number that is absent from the document is the  *)
(* empty sequence, one that is present is a one-element sequence.           *)
(***************************************************************************)
Rec(name, type, ttl, target) ==
  [Name |-> name, Type |-> type, TTL |-> ttl, Target |-> target]

ValidRecords ==
  { Rec(S_abco, "A", 300, S_10_0_0_5),
    Rec(S_abco, "AAAA", 300, S_2001_db8__1),
    Rec(S_abco, "CNAME", 300, S_cdio) }

InvalidRecords ==
  { Rec(S_a_b, "A", 1, S_10_0_0_5),
    Rec(S_abco, "MX", 300, S_10_0_0_5),
    Rec(S_abco, "A", 0, S_10_0_0_5),
    Rec(S_a_b, "MX", 0, S_x),
    Rec(S_abco, "A", 300, S_loopback6),
    Rec(S_abco, "AAAA", 300, S_x),
    Rec(S_abco, "CNAME", 300, S_aaco),
    Rec(S_abco, "CNAME", 300, S_abco_nodot) }

\* records whose type and target are of different address families
CrossFamilyRecords ==
  { Rec(S_abco, "AAAA", 300, S_10_0_0_5),
    Rec(S_abco, "A", 300, S_mapped) }

RecordPool == ValidRecords \cup InvalidRecords \cup CrossFamilyRecords

RECURSIVE SeqsUpTo(_, _)
SeqsUpTo(S, n) ==
  IF n = 0 THEN {<<>>}
  ELSE LET shorter == SeqsUpTo(S, n - 1)
       IN shorter \cup {Append(q, x) : q \in {r \in shorter : Len(r) = n - 1}, x \in S}

NsDoc(v4, v6, port) == [IPv4 |-> v4, IPv6 |-> v6, Port |-> port]

NameserverPool ==
  { NsDoc(S_1_1_1_1, Empty, <<>>),
    NsDoc(S_loopback6, S_2001_db8__1, <<8053>>),
    NsDoc(S_10_0_0_5, Empty, <<0>>),
    NsDoc(Empty, Empty, <<0>>),
    NsDoc(Empty, S_256_0_0_1, <<>>) }

TimeoutPool == {<<>>, <<0>>, <<250>>}

Documents ==
  [LocalRecords : SeqsUpTo(RecordPool, MaxRecords),
   Primary : NameserverPool,
   Secondary : NameserverPool,
   TimeoutMs : TimeoutPool]

\* encoding/json leaves the zero value in a field the document omits
NumberOrZero(f) == IF f = <<>> THEN 0 ELSE f[1]

DecodeNameserver(d) ==
  [IPv4 |-> d.IPv4, IPv6 |-> d.IPv6, Port |-> NumberOrZero(d.Port)]

Decode(doc) ==
  [LocalRecords |-> doc.LocalRecords,
   UpstreamNameservers |->
     [Primary |-> DecodeNameserver(doc.Primary),
      Secondary |-> DecodeNameserver(doc.Secondary),
      TimeoutMs |-> NumberOrZero(doc.TimeoutMs)]]

ZeroNameserver == [IPv4 |-> Empty, IPv6 |-> Empty, Port |-> 0]

\* &Configuration{}
ZeroConfig ==
  [LocalRecords |-> <<>>,
   UpstreamNameservers |->
     [Primary |-> ZeroNameserver, Secondary |-> ZeroNameserver, TimeoutMs |-> 0]]

(***************************************************************************)
(* LoadConfig.  A returned *Configuration is the empty sequence when nil    *)
(* and a one-element sequence otherwise.                                    *)
(***************************************************************************)
NotReturned == [returned |-> FALSE, config |-> <<>>, err |-> NoErr]

\* return nil, err
FailResult_partial(cfg, e) == [returned |-> TRUE, config |-> <<cfg>>, err |-> e]

FailResult(cfg, e) == [returned |-> TRUE, config |-> <<>>, err |-> e]

\* return config, nil
OkResult(cfg) == [returned |-> TRUE, config |-> <<cfg>>, err |-> NoErr]

\* defer file.Close(): runs on every return that follows the open
DeferredClose_leak(f) == f

DeferredClose(f) == IF f = "open" THEN "closed" ELSE f

\* one evaluated test: which one, on which record, and whether it passed
Check(rule, idx, ok) == [rule |-> rule, index |-> idx, ok |-> ok]

InitLoad ==
  /\ pc = "open"
  /\ file = "none"
  /\ decoded = <<>>
  /\ config = ZeroConfig
  /\ k = 0
  /\ result = NotReturned
  /\ checks = <<>>

OpenFail ==
  /\ pc = "open"
  /\ result' = FailResult(config, Err("open"))
  /\ pc' = "done"
  /\ UNCHANGED <<file, decoded, config, k, checks, ns, nsCalls>>

OpenOK ==
  /\ pc = "open"
  /\ file' = "open"
  /\ pc' = "decode"
  /\ UNCHANGED <<decoded, config, k, result, checks, ns, nsCalls>>

DecodeFail ==
  /\ pc = "decode"
  /\ result' = FailResult(config, Err("decode"))
  /\ file' = DeferredClose(file)
  /\ pc' = "done"
  /\ UNCHANGED <<decoded, config, k, checks, ns, nsCalls>>

DecodeOK ==
  /\ pc = "decode"
  /\ \E doc \in Documents :
       /\ decoded' = <<doc>>
       /\ config' = Decode(doc)
  /\ k' = 0
  /\ pc' = "records"
  /\ UNCHANGED <<file, result, checks, ns, nsCalls>>

\* one iteration of the range loop over config.LocalRecords
CheckRecord ==
  /\ pc = "records"
  /\ k < Len(config.LocalRecords)
  /\ LET v == config.LocalRecords[k + 1]
         ff == FirstFailing(v)
         ev == RulesEvaluated(ff)
     IN /\ checks' = checks \o [i \in 1..Len(ev) |-> Check(ev[i], k, i # ff)]
        /\ IF ff # 0
           THEN /\ result' = FailResult(config, RecordErr(RuleOrder[ff], k))
                /\ file' = DeferredClose(file)
                /\ pc' = "done"
                /\ k' = k
           ELSE /\ k' = k + 1
                /\ UNCHANGED <<result, file, pc>>
  /\ UNCHANGED <<decoded, config, ns, nsCalls>>

ValidatePrimary ==
  /\ pc = "records"
  /\ k = Len(config.LocalRecords)
  /\ LET r == ValidateNameserver(config.UpstreamNameservers.Primary)
     IN /\ config' = [config EXCEPT !.UpstreamNameservers.Primary = r.ns]
        /\ checks' = Append(checks, Check("primary", NoIndex, r.err = NoErr))
        /\ IF r.err # NoErr
           THEN /\ result' = FailResult(config', r.err)
                /\ file' = DeferredClose(file)
                /\ pc' = "done"
           ELSE /\ pc' = "secondary"
                /\ UNCHANGED <<result, file>>
  /\ UNCHANGED <<decoded, k, ns, nsCalls>>

ValidateSecondary ==
  /\ pc = "secondary"
  /\ LET r == ValidateNameserver(config.UpstreamNameservers.Secondary)
     IN /\ config' = [config EXCEPT !.UpstreamNameservers.Secondary = r.ns]
        /\ checks' = Append(checks, Check("secondary", NoIndex, r.err = NoErr))
        /\ IF r.err # NoErr
           THEN /\ result' = FailResult(config', r.err)
                /\ file' = DeferredClose(file)
                /\ pc' = "done"
           ELSE /\ pc' = "timeout"
                /\ UNCHANGED <<result, file>>
  /\ UNCHANGED <<decoded, k, ns, nsCalls>>

DefaultTimeoutAndReturn ==
  /\ pc = "timeout"
  /\ config' = IF config.UpstreamNameservers.TimeoutMs = 0
               THEN [config EXCEPT !.UpstreamNameservers.TimeoutMs = DefaultTimeoutMs]
               ELSE config
  /\ result' = OkResult(config')
  /\ file' = DeferredClose(file)
  /\ pc' = "done"
  /\ UNCHANGED <<decoded, k, checks, ns, nsCalls>>

Init ==
  /\ InitLoad
  /\ ns = ZeroNameserver
  /\ nsCalls = <<>>

Next ==
  \/ OpenFail
  \/ OpenOK
  \/ DecodeFail
  \/ DecodeOK
  \/ CheckRecord
  \/ ValidatePrimary
  \/ ValidateSecondary
  \/ DefaultTimeoutAndReturn

Spec == Init /\ [][Next]_vars

(***************************************************************************)
(* ValidateNameserver called on its own, repeatedly on the same endpoint    *)
(***************************************************************************)
AddressPool == {Empty, S_1_1_1_1, S_loopback6, S_x, S_256_0_0_1}

PortPool == {0, 53, 8053}

Endpoints == [IPv4 : AddressPool, IPv6 : AddressPool, Port : PortPool]

InitNS ==
  /\ InitLoad
  /\ ns \in Endpoints
  /\ nsCalls = <<>>

CallValidateNameserver ==
  /\ Len(nsCalls) < MaxCalls
  /\ LET r == ValidateNameserver(ns)
     IN /\ ns' = r.ns
        /\ nsCalls' = Append(nsCalls, [before |-> ns, after |-> r.ns, err |-> r.err])
  /\ UNCHANGED loadVars

NextNS == CallValidateNameserver

SpecNS == InitNS /\ [][NextNS]_vars

(***************************************************************************)
(* Vocabulary of the properties                                             *)
(***************************************************************************)
RecordRules == {"name", "type", "ttl", "target"}

RecordValid(v) == \A rule \in RecordRules : RulePasses(rule, v)

NsPasses(n) == ValidateNameserver(n).err = NoErr

\* indices (from 0) of the invalid records of a document
InvalidIndices(doc) ==
  {i \in 0..(Len(doc.LocalRecords) - 1) : ~RecordValid(doc.LocalRecords[i + 1])}

Smallest(S) == CHOOSE m \in S : \A i \in S : m <= i

DocValid(doc) ==
  /\ InvalidIndices(doc) = {}
  /\ NsPasses(DecodeNameserver(doc.Primary))
  /\ NsPasses(DecodeNameserver(doc.Secondary))

Returned == pc = "done"

Succeeded == Returned /\ result.config # <<>> /\ result.err = NoErr

\* C1: LoadConfig is all-or-nothing: it returns a non-nil Configuration with
\* a nil error exactly when the decode succeeded, every local record passes
\* the four record rules and both nameservers pass ValidateNameserver; in
\* every other case it returns a nil Configuration and one non-nil error.
C1_AllOrNothing ==
  Returned =>
    IF decoded # <<>> /\ DocValid(decoded[1])
    THEN result.config # <<>> /\ result.err = NoErr
    ELSE result.config = <<>> /\ result.err # NoErr

C1_Witness ==
  /\ Succeeded
  /\ Len(decoded[1].LocalRecords) = 2

\* the first rule a record fails, in the order name, type, TTL, target
FirstRuleFailed(v) ==
  IF ~isValidRecordName(v.Name) THEN "name"
  ELSE IF ~isValidType(v.Type) THEN "type"
  ELSE IF v.TTL = 0 THEN "ttl"
  ELSE "target"

\* C2: LoadConfig reports the first violation in document order: with an
\* invalid record, the error names the smallest invalid index and the first
\* rule that record fails (name, type, TTL, target); a nameserver error is
\* returned only when every record is valid, a secondary-nameserver error only
\* when the primary is valid too; no check follows the first failing one.
C2_FirstViolation ==
  /\ \A i \in 1..Len(checks) : ~checks[i].ok => (i = Len(checks) /\ Returned)
  /\ (Returned /\ decoded # <<>>) =>
       LET doc == decoded[1]
           bad == InvalidIndices(doc)
       IN /\ bad # {} =>
               result.err = RecordErr(FirstRuleFailed(doc.LocalRecords[Smallest(bad) + 1]),
                                      Smallest(bad))
          /\ result.err.kind \in {"nsMissing", "nsIPv4", "nsIPv6"} =>
               /\ bad = {}
               /\ checks[Len(checks)].rule \in {"primary", "secondary"}
               /\ checks[Len(checks)].rule = "secondary" =>
                    NsPasses(DecodeNameserver(doc.Primary))

C2_Witness ==
  /\ Returned
  /\ decoded # <<>>
  /\ result.err = RecordErr("name", 1)
  /\ Cardinality({r \in RecordRules : ~RulePasses(r, decoded[1].LocalRecords[2])}) >= 3

\* C3: the Configuration returned for a valid document is default-filled:
\* a port omitted or zero in the document is 53, a timeout omitted or zero is
\* 5000, every nonzero port or timeout, every address and the record sequence
\* are as decoded; so no returned Configuration has a zero port or timeout.
C3_DefaultFilled ==
  Succeeded =>
    LET doc == decoded[1]
        up == result.config[1].UpstreamNameservers
        Filled(f, dflt) == IF f = <<>> \/ f = <<0>> THEN dflt ELSE f[1]
    IN /\ up.Primary.Port = Filled(doc.Primary.Port, 53)
       /\ up.Secondary.Port = Filled(doc.Secondary.Port, 53)
       /\ up.TimeoutMs = Filled(doc.TimeoutMs, 5000)
       /\ up.Primary.IPv4 = doc.Primary.IPv4
       /\ up.Primary.IPv6 = doc.Primary.IPv6
       /\ up.Secondary.IPv4 = doc.Secondary.IPv4
       /\ up.Secondary.IPv6 = doc.Secondary.IPv6
       /\ result.config[1].LocalRecords = doc.LocalRecords
       /\ up.Primary.Port # 0 /\ up.Secondary.Port # 0 /\ up.TimeoutMs # 0

C3_Witness ==
  /\ Succeeded
  /\ decoded[1].Primary.Port = <<>>
  /\ decoded[1].Secondary.Port = <<8053>>
  /\ decoded[1].TimeoutMs = <<>>
  /\ decoded[1].LocalRecords # <<>>
  /\ result.config[1].UpstreamNameservers.Primary.Port = 53
  /\ result.config[1].UpstreamNameservers.Secondary.Port = 8053

ZeroTTLIndices(doc) ==
  {i \in 0..(Len(doc.LocalRecords) - 1) : doc.LocalRecords[i + 1].TTL = 0}

\* C4 as stated: a document with a TTL of 0 at index k fails to load with an
\* error that references index k, whatever the rest of the document.
C4_AsStated ==
  (Returned /\ decoded # <<>>) =>
    \A i \in ZeroTTLIndices(decoded[1]) :
      result.err # NoErr /\ result.err.index = i

\* C4 (amended): a document with a TTL of 0 at index k fails to load with a
\* record error whose index is that of the first invalid record, at most k,
\* and is k when every record before index k is valid.
C4_ZeroTTLFails ==
  (Returned /\ decoded # <<>>) =>
    \A i \in ZeroTTLIndices(decoded[1]) :
      /\ result.config = <<>>
      /\ result.err.kind \in RecordRules
      /\ result.err.index = Smallest(InvalidIndices(decoded[1]))
      /\ result.err.index <= i
      /\ (\A j \in 0..(i - 1) : RecordValid(decoded[1].LocalRecords[j + 1])) =>
           result.err.index = i

C4_Witness ==
  /\ Returned
  /\ decoded # <<>>
  /\ Len(decoded[1].LocalRecords) = 2
  /\ RecordValid(decoded[1].LocalRecords[1])
  /\ decoded[1].LocalRecords[2] = Rec(S_abco, "A", 0, S_10_0_0_5)
  /\ result.err = RecordErr("ttl", 1)

\* the target tests evaluated so far on records of a given type
TargetChecks(type) ==
  {i \in 1..Len(checks) :
     /\ checks[i].rule = "target"
     /\ config.LocalRecords[checks[i].index + 1].Type = type}

CheckedTarget(i) == config.LocalRecords[checks[i].index + 1].Target

\* C5: an AAAA record whose target is an IPv4-only (dotted 4-octet) literal
\* fails target validation and LoadConfig fails with the target error for
\* that record.
C5_AAAARejectsIPv4 ==
  \A i \in TargetChecks("AAAA") :
    parseIPv4(CheckedTarget(i)) # NilIP =>
      /\ ~checks[i].ok
      /\ Returned
      /\ result.err = RecordErr("target", checks[i].index)

\* C6: an A record whose target is a valid colon-form IPv6 literal, including
\* one that embeds an IPv4 address, fails target validation and LoadConfig
\* fails.
C6_ARejectsIPv6 ==
  \A i \in TargetChecks("A") :
    parseIPv6(CheckedTarget(i)) # NilIP =>
      /\ ~checks[i].ok
      /\ Returned
      /\ result.err # NoErr

\* C7: a CNAME target is accepted if and only if it matches the FQDN grammar
\* and no character equals the one that follows it.
C7_CNAMETarget ==
  \A i \in TargetChecks("CNAME") :
    LET t == CheckedTarget(i)
    IN checks[i].ok <=>
         (MatchFQDN(t) /\ \A j \in 1..(Len(t) - 1) : t[j] # t[j + 1])

C7_Witness ==
  \E i \in TargetChecks("CNAME") :
    /\ CheckedTarget(i) = S_aaco
    /\ MatchFQDN(S_aaco)
    /\ ~checks[i].ok
    /\ Returned
    /\ result.err = RecordErr("target", checks[i].index)

\* C8 as stated: ValidateNameserver changes the endpoint only when it
\* succeeds; when it returns an error the endpoint, port included, is as
\* supplied.
C8_AsStated ==
  \A i \in 1..Len(nsCalls) :
    IF nsCalls[i].err = NoErr
    THEN nsCalls[i].after.Port = IF nsCalls[i].before.Port = 0 THEN 53
                                 ELSE nsCalls[i].before.Port
    ELSE nsCalls[i].after = nsCalls[i].before

\* C8 (amended): ValidateNameserver sets a zero port to 53 on every call,
\* also when it returns an error; a nonzero port and both addresses are left
\* as supplied on every call.
C8_PortDefaultedAlways ==
  \A i \in 1..Len(nsCalls) :
    /\ nsCalls[i].after.Port = IF nsCalls[i].before.Port = 0 THEN 53
                               ELSE nsCalls[i].before.Port
    /\ nsCalls[i].after.IPv4 = nsCalls[i].before.IPv4
    /\ nsCalls[i].after.IPv6 = nsCalls[i].before.IPv6
    /\ ns = nsCalls[Len(nsCalls)].after

C8_Witness ==
  \E i \in 1..Len(nsCalls) :
    /\ nsCalls[i].err # NoErr
    /\ nsCalls[i].before.Port = 0
    /\ nsCalls[i].after.Port = 53

\* C9: ValidateNameserver is idempotent: a further call returns the same
\* outcome as the call before it and leaves the endpoint as that call left
\* it; no call alters ipv4 or ipv6, and a nonzero port is never changed.
C9_Idempotent ==
  /\ \A i \in 2..Len(nsCalls) :
       /\ nsCalls[i].before = nsCalls[i - 1].after
       /\ nsCalls[i].err = nsCalls[i - 1].err
       /\ nsCalls[i].after = nsCalls[i - 1].after
  /\ \A i \in 1..Len(nsCalls) :
       /\ nsCalls[i].after.IPv4 = nsCalls[i].before.IPv4
       /\ nsCalls[i].after.IPv6 = nsCalls[i].before.IPv6
       /\ nsCalls[i].before.Port # 0 =>
            nsCalls[i].after.Port = nsCalls[i].before.Port

C9_Witness ==
  /\ Len(nsCalls) >= 2
  /\ nsCalls[1].before.Port = 0
  /\ nsCalls[1].err = NoErr
  /\ nsCalls[2].after = nsCalls[1].after

\* C10: on every return of LoadConfig that follows a successful open the
\* file handle has been released; when the open fails no handle is held and
\* the open error is returned without any decoding or validation.
C10_HandleReleased ==
  /\ file = "none" => (pc = "open" \/ (Returned /\ result.err = Err("open")))
  /\ Returned =>
       \/ file = "closed"
       \/ /\ file = "none"
          /\ result = FailResult(config, Err("open"))
          /\ decoded = <<>>
          /\ checks = <<>>
          /\ config = ZeroConfig

C10_Witness ==
  /\ Returned
  /\ file = "closed"
  /\ result.err.kind \in RecordRules

====
